---- MODULE Spec2Model ----
(***************************************************************************)
(* A model of vcpkg's paragraph layer (src/src/vcpkg/paragraphs.cpp):      *)
(*   - the CONTROL paragraph grammar (PghParser),                          *)
(*   - the field extraction protocol (ParagraphParser),                    *)
(*   - the comma separated list grammars (parse_list_until_eof),           *)
(*   - the port directory loader (try_load_port) and the two batch         *)
(*     loaders (try_load_all_registry_ports, load_overlay_ports).          *)
(*                                                                         *)
(* Text is a sequence of characters; a character is a one-symbol string,   *)
(* with "SP", "TAB", "CR" and "LF" standing for the four blanks.           *)
(***************************************************************************)
EXTENDS Integers, Sequences, FiniteSets, TLC

VARIABLES
    \* paragraph grammar: the document as lines, the text handed to
    \* parse_paragraphs, and what it returned
    lines, eol, finalEol, text, pghs, pghPc,
    \* field extraction: the paragraph a ParagraphParser was built from, the
    \* calls made on it, its two members, the last value handed out and
    \* what error_info returned
    paragraph, calls, fields, missing_fields, out, errInfo, ppPc,
    \* list grammars: the string parsed, the entry point called and what it
    \* returned
    str, listCall, listResult, listPc,
    \* loaders: the port directories on disk, the registry set, the overlay
    \* directory's listing, Debug::g_debugging, the call made, what it
    \* returned, what it printed, and whether the process is still there
    fs, registries, overlay, g_debugging, loadCall, loadResult, printed, loadPc,
    \* cached packages: the CONTROL file of the package directory, the spec
    \* expected, what try_load_cached_package returned, the size of the
    \* vector front() was taken of (-1: not taken), and where the call is
    package_control, spec, cachedResult, front_size, cachedPc

pghVars == <<lines, eol, finalEol, text, pghs, pghPc>>

ppVars == <<paragraph, calls, fields, missing_fields, out, errInfo, ppPc>>

listVars == <<str, listCall, listResult, listPc>>

loadVars == <<fs, registries, overlay, g_debugging, loadCall, loadResult, printed, loadPc>>

cachedVars == <<package_control, spec, cachedResult, front_size, cachedPc>>

vars == <<pghVars, ppVars, listVars, loadVars, cachedVars>>

-----------------------------------------------------------------------------
(* Bounds *)

MaxLines == 3

\* calls made on one ParagraphParser
MaxCalls == 3

\* characters of a list string
MaxListLen == 4

\* port names, 1..MaxPorts in sorted order; port n lives in directory n
MaxPorts == 2

-----------------------------------------------------------------------------
(* ParserBase: the position tracked text scanner (vcpkg/base/parse.h).     *)
(* A parser is [pos, err]: the cursor (1-based, Len+1 at end of text) and  *)
(* the one diagnostic it keeps.                                            *)

EndOfFile == "EOF"

NoError == [msg |-> "none"]

is_lineend == {"CR", "LF", EndOfFile}

is_whitespace == {"SP", "TAB", "CR", "LF"}

is_tab_space == {"SP", "TAB"}

is_alphanumdash == {"A", "B", "a", "b", "x", "y", "-"}

at_eof(t, i) == i > Len(t)

cur(t, i) == IF i > Len(t) THEN EndOfFile ELSE t[i]

\* the cursor after the maximal run of characters of S starting at i
match_zero_or_more(t, i, S) ==
    CHOOSE j \in i..(Len(t) + 1) :
        /\ \A k \in i..(j - 1) : t[k] \in S
        /\ (j = Len(t) + 1 \/ t[j] \notin S)

\* the cursor at the first character of S at or after i, or at end of text
match_until(t, i, S) ==
    CHOOSE j \in i..(Len(t) + 1) :
        /\ \A k \in i..(j - 1) : t[k] \notin S
        /\ (j = Len(t) + 1 \/ t[j] \in S)

skip_whitespace(t, i) == match_zero_or_more(t, i, is_whitespace)

skip_tabs_spaces(t, i) == match_zero_or_more(t, i, is_tab_space)

skip_newline(t, i) ==
    LET j == IF cur(t, i) = "CR" THEN i + 1 ELSE i
    IN  IF cur(t, j) = "LF" THEN j + 1 ELSE j

skip_line(t, i) == skip_newline(t, match_until(t, i, is_lineend))

\* row and column of cursor i: a line feed starts a row, a tab moves to the
\* next 8-wide tab stop, any other character is one column
RECURSIVE advance_rowcol(_, _, _, _, _)
advance_rowcol(t, k, i, row, col) ==
    IF k >= i THEN [row |-> row, col |-> col]
    ELSE IF t[k] = "LF" THEN advance_rowcol(t, k + 1, i, row + 1, 1)
    ELSE IF t[k] = "TAB" THEN advance_rowcol(t, k + 1, i, row, ((col + 7) \div 8) * 8 + 1)
    ELSE advance_rowcol(t, k + 1, i, row, col + 1)

cur_loc(t, i) == advance_rowcol(t, 1, i, 1, 1)

\* only the first error is kept; the cursor goes to end of text
add_error(t, p, msg, loc) ==
    [pos |-> Len(t) + 1,
     err |-> IF p.err = NoError THEN [msg |-> msg, row |-> loc.row, col |-> loc.col]
             ELSE p.err]

-----------------------------------------------------------------------------
(* Paragraph: a map from field name to (value, position).                  *)

EmptyParagraph == << >>

\* a lookup that never finds the name
contains_nothing(flds, name) == FALSE

\* Util::Sets::contains(fields, fieldname)
contains(flds, name) == name \in DOMAIN flds

\* std::unordered_map::emplace: no effect when the key is present
emplace(flds, name, value) ==
    IF name \in DOMAIN flds THEN flds
    ELSE [n \in DOMAIN flds \cup {name} |-> IF n = name THEN value ELSE flds[n]]

-----------------------------------------------------------------------------
(* PghParser *)

BlankContinuationMsg == "unexpected end of line, to span a blank line use \"  .\""

\* a continuation that joins by the line feed alone
continuation_dropping_spacing(t, j, k) == <<"LF">>

\* Strings::append(fieldvalue, "\n", spacing): what a continuation line adds
\* before its rest, j being the cursor at the line's start and k the cursor
\* after its tabs and spaces
continuation(t, j, k) == <<"LF">> \o SubSeq(t, j, k - 1)

\* get_fieldvalue: the loop is entered with cursor i and the value so far
RECURSIVE get_fieldvalue(_, _, _)

\* after skip_newline: j is the cursor, k the cursor after tabs and spaces
get_fieldvalue_next_line(t, v, j, k) ==
    IF cur(t, j) # "SP"
    THEN [p |-> [pos |-> j, err |-> NoError], value |-> v]
    ELSE IF cur(t, k) \in is_lineend
    THEN [p |-> add_error(t, [pos |-> k, err |-> NoError], BlankContinuationMsg, cur_loc(t, k)),
          value |-> v]
    ELSE get_fieldvalue(t, k, v \o continuation(t, j, k))

\* after match_until(is_lineend): e is the cursor at the line's end
get_fieldvalue_line(t, i, v, e) ==
    get_fieldvalue_next_line(t, v \o SubSeq(t, i, e - 1), skip_newline(t, e),
                             skip_tabs_spaces(t, skip_newline(t, e)))

get_fieldvalue(t, i, v) == get_fieldvalue_line(t, i, v, match_until(t, i, is_lineend))

\* get_fieldname with the parser at p: the name and the parser after it
get_fieldname_end(t, p, e) ==
    [name |-> SubSeq(t, p.pos, e - 1),
     p |-> IF e = p.pos
           THEN add_error(t, [p EXCEPT !.pos = e], "expected fieldname", cur_loc(t, e))
           ELSE [p EXCEPT !.pos = e]]

get_fieldname(t, p) == get_fieldname_end(t, p, match_zero_or_more(t, p.pos, is_alphanumdash))

\* fields.emplace(fieldname, std::make_pair(fieldvalue, rowcol))
get_paragraph_emplace(flds, fieldname, rowcol, fv) ==
    [p |-> fv.p,
     fields |-> emplace(flds, fieldname, [value |-> fv.value, rowcol |-> rowcol]),
     ret |-> FALSE]

\* next(); skip_tabs_spaces(); cur_rowcol(); get_fieldvalue(): i is the
\* cursor where the value starts
get_paragraph_value(t, flds, fieldname, i) ==
    get_paragraph_emplace(flds, fieldname, cur_loc(t, i), get_fieldvalue(t, i, << >>))

\* get_paragraph after get_fieldname returned fn; loc is where the name began
get_paragraph_field(t, flds, fn, loc) ==
    IF cur(t, fn.p.pos) # ":"
    THEN [p |-> add_error(t, fn.p, "expected ':' after field name", cur_loc(t, fn.p.pos)),
          fields |-> flds, ret |-> TRUE]
    ELSE IF contains(flds, fn.name)
    THEN [p |-> add_error(t, fn.p, "duplicate field", loc), fields |-> flds, ret |-> TRUE]
    ELSE get_paragraph_value(t, flds, fn.name, skip_tabs_spaces(t, fn.p.pos + 1))

\* one pass of get_paragraph's do-while body: ret is TRUE when the body
\* returned from get_paragraph
get_paragraph_body(t, p, flds) ==
    IF cur(t, p.pos) = "#"
    THEN [p |-> [p EXCEPT !.pos = skip_line(t, p.pos)], fields |-> flds, ret |-> FALSE]
    ELSE get_paragraph_field(t, flds, get_fieldname(t, p), cur_loc(t, p.pos))

\* get_paragraph: do { body } while (!is_lineend(cur())); `continue` after a
\* comment line goes to the loop condition
RECURSIVE get_paragraph(_, _, _)

get_paragraph_while(t, s) ==
    IF s.ret \/ cur(t, s.p.pos) \in is_lineend
    THEN [p |-> s.p, fields |-> s.fields]
    ELSE get_paragraph(t, s.p, s.fields)

get_paragraph(t, p, flds) == get_paragraph_while(t, get_paragraph_body(t, p, flds))

\* the while loop of get_paragraphs
RECURSIVE get_paragraphs_loop(_, _, _)

\* paragraphs.back() is g.fields; match_zero_or_more(is_lineend)
get_paragraphs_next(t, paragraphs, g) ==
    get_paragraphs_loop(t, [g.p EXCEPT !.pos = match_zero_or_more(t, g.p.pos, is_lineend)],
                        Append(paragraphs, g.fields))

get_paragraphs_loop(t, p, paragraphs) ==
    IF at_eof(t, p.pos) THEN [p |-> p, paragraphs |-> paragraphs]
    ELSE get_paragraphs_next(t, paragraphs, get_paragraph(t, p, EmptyParagraph))

get_paragraphs_result(r) ==
    IF r.p.err # NoError THEN [ok |-> FALSE, error |-> r.p.err]
    ELSE [ok |-> TRUE, paragraphs |-> r.paragraphs]

get_paragraphs(t) ==
    get_paragraphs_result(
        get_paragraphs_loop(t, [pos |-> skip_whitespace(t, 1), err |-> NoError], << >>))

parse_paragraphs(t) == get_paragraphs(t)

-----------------------------------------------------------------------------
(* CONTROL documents, line by line.  A document is a sequence of lines;    *)
(* the text handed to the parser is the lines joined by the line ending.   *)

FieldLine(name, sep, body) == [kind |-> "field", name |-> name, ws |-> sep, body |-> body]

CommentLine(body) == [kind |-> "comment", name |-> << >>, ws |-> << >>, body |-> body]

BlankLine == [kind |-> "blank", name |-> << >>, ws |-> << >>, body |-> << >>]

\* a continuation line: one space, further tabs/spaces, a non-blank rest
ContLine(ws, body) == [kind |-> "cont", name |-> << >>, ws |-> ws, body |-> body]

\* a continuation line with nothing after its blanks
BlankContLine(ws) == [kind |-> "blankcont", name |-> << >>, ws |-> ws, body |-> << >>]

\* a line that is no field: a name without its colon
NoColonLine(body) == [kind |-> "nocolon", name |-> << >>, ws |-> << >>, body |-> body]

LineKinds ==
    { FieldLine(<<"A">>, << >>, <<"x">>),
      FieldLine(<<"A">>, <<"SP">>, <<"y">>),
      FieldLine(<<"B">>, << >>, <<"x">>),
      CommentLine(<<"x">>),
      BlankLine,
      ContLine(<<"SP">>, <<".">>),
      ContLine(<<"SP", "TAB">>, <<"y">>),
      ContLine(<<"SP", "SP">>, <<"x">>),
      BlankContLine(<<"SP">>),
      NoColonLine(<<"x">>) }

RenderLine(l) ==
    CASE l.kind = "field"   -> l.name \o <<":">> \o l.ws \o l.body
      [] l.kind = "comment" -> <<"#">> \o l.body
      [] OTHER              -> l.ws \o l.body

RECURSIVE RenderLines(_, _, _)
RenderLines(ls, nl, last) ==
    IF ls = << >> THEN << >>
    ELSE IF Len(ls) = 1 THEN RenderLine(ls[1]) \o (IF last THEN nl ELSE << >>)
    ELSE RenderLine(ls[1]) \o nl \o RenderLines(Tail(ls), nl, last)

Documents == UNION { [1..n -> LineKinds] : n \in 0..MaxLines }

LineEndings == { <<"LF">>, <<"CR", "LF">> }

PghIdle ==
    /\ lines = << >> /\ eol = <<"LF">> /\ finalEol = FALSE /\ text = << >>
    /\ pghs = [ok |-> FALSE, error |-> NoError] /\ pghPc = "off"

PghInit ==
    /\ lines \in Documents
    /\ eol \in LineEndings
    /\ finalEol \in BOOLEAN
    /\ text = RenderLines(lines, eol, finalEol)
    /\ pghs = [ok |-> FALSE, error |-> NoError]
    /\ pghPc = "ready"

\* parse_paragraphs(text, origin)
ParseParagraphs ==
    /\ pghPc = "ready"
    /\ pghs' = parse_paragraphs(text)
    /\ pghPc' = "done"
    /\ UNCHANGED <<lines, eol, finalEol, text>>

-----------------------------------------------------------------------------
(* What a document says, read off its lines.                               *)

FieldLinesOf(ls) == { i \in 1..Len(ls) : ls[i].kind = "field" }

\* the first line of the run of non-blank lines line i is in
BlockOf(ls, i) ==
    CHOOSE j \in 1..i :
        /\ \A k \in j..i : ls[k].kind # "blank"
        /\ (j = 1 \/ ls[j - 1].kind = "blank")

\* only fields, comments, blank lines and continuation lines, every
\* continuation line right after a field line or a continuation line
Shaped(ls) ==
    /\ \A i \in 1..Len(ls) : ls[i].kind \in {"field", "comment", "blank", "cont"}
    /\ \A i \in 1..Len(ls) :
           ls[i].kind = "cont" => i > 1 /\ ls[i - 1].kind \in {"field", "cont"}

DuplicateLines(ls) ==
    { i \in FieldLinesOf(ls) :
        \E j \in FieldLinesOf(ls) :
            j < i /\ BlockOf(ls, j) = BlockOf(ls, i) /\ ls[j].name = ls[i].name }

\* N blank-line-separated well-formed field blocks, with comment lines
WellFormed(ls) == Shaped(ls) /\ DuplicateLines(ls) = {}

\* the blocks that hold a field, and all runs of non-blank lines
FieldBlocks(ls) == { BlockOf(ls, i) : i \in FieldLinesOf(ls) }

Runs(ls) == { BlockOf(ls, i) : i \in { k \in 1..Len(ls) : ls[k].kind # "blank" } }

\* the position of block b among the blocks of B, in document order
RankIn(B, b) == Cardinality({ c \in B : c <= b })

NamesOfBlock(ls, b) == { ls[i].name : i \in { k \in FieldLinesOf(ls) : BlockOf(ls, k) = b } }

\* the continuation lines of field line i
ContLinesOf(ls, i) ==
    { k \in (i + 1)..Len(ls) : \A m \in (i + 1)..k : ls[m].kind = "cont" }

\* the value of field line i as the code builds it: the first line's text,
\* then per continuation line a line feed, the blanks that were skipped
\* and the rest of the line
RECURSIVE JoinedValue(_, _, _, _)
JoinedValue(ls, i, k, keepBlanks) ==
    IF k = i THEN ls[i].body
    ELSE JoinedValue(ls, i, k - 1, keepBlanks)
         \o <<"LF">> \o (IF keepBlanks THEN ls[k].ws ELSE << >>) \o ls[k].body

LastContLine(ls, i) == i + Cardinality(ContLinesOf(ls, i))

\* the paragraph of the result that holds the fields of the run starting at
\* line b: every run of non-blank lines makes one paragraph
ParagraphOfRun(ls, b) == RankIn(Runs(ls), b)

Parsed == pghPc = "done"

-----------------------------------------------------------------------------
(* C6: for every text of N blank-line-separated well-formed field blocks,  *)
(* with full-line comments anywhere a line may start, parse_paragraphs     *)
(* succeeds with exactly N paragraphs, the k-th holding exactly the fields *)
(* of the k-th block and none of them empty: a comment line never makes    *)
(* a paragraph.                                                            *)
C6_CommentsMakeNoParagraph ==
    (Parsed /\ WellFormed(lines)) =>
        /\ pghs.ok
        /\ Len(pghs.paragraphs) = Cardinality(FieldBlocks(lines))
        /\ \A b \in FieldBlocks(lines) :
               LET k == RankIn(FieldBlocks(lines), b)
               IN  /\ k <= Len(pghs.paragraphs)
                   /\ DOMAIN pghs.paragraphs[k] = NamesOfBlock(lines, b)
        /\ \A k \in 1..Len(pghs.paragraphs) : DOMAIN pghs.paragraphs[k] # {}

-----------------------------------------------------------------------------
(* C7 as stated: the stored value of a field is its first line's text      *)
(* followed, per continuation line, by a line feed and the line's rest     *)
(* with the leading space and further tabs/spaces removed.                 *)
C7_ValueDropsSkippedBlanks ==
    (Parsed /\ WellFormed(lines)) =>
        /\ pghs.ok
        /\ \A i \in FieldLinesOf(lines) :
               LET k == ParagraphOfRun(lines, BlockOf(lines, i))
               IN  /\ k <= Len(pghs.paragraphs)
                   /\ lines[i].name \in DOMAIN pghs.paragraphs[k]
                   /\ pghs.paragraphs[k][lines[i].name].value
                        = JoinedValue(lines, i, LastContLine(lines, i), FALSE)

(* C7 amended: the stored value of a field is its first line's text        *)
(* followed, per continuation line, by a line feed, the skipped blanks     *)
(* (the leading space and the tabs/spaces after it) and the line's rest;   *)
(* " ." is accepted and continuation stops at the first line that does     *)
(* not begin with a space.                                                 *)
C7_ValueKeepsSkippedBlanks ==
    (Parsed /\ WellFormed(lines)) =>
        /\ pghs.ok
        /\ \A i \in FieldLinesOf(lines) :
               LET k == ParagraphOfRun(lines, BlockOf(lines, i))
               IN  /\ k <= Len(pghs.paragraphs)
                   /\ lines[i].name \in DOMAIN pghs.paragraphs[k]
                   /\ pghs.paragraphs[k][lines[i].name].value
                        = JoinedValue(lines, i, LastContLine(lines, i), TRUE)

\* a parsed field with two continuation lines, one of them " ." and one
\* with a tab after its space, followed by nothing
C7_Witness ==
    /\ Parsed /\ WellFormed(lines) /\ pghs.ok
    /\ Len(lines) = 3
    /\ lines[1].kind = "field"
    /\ lines[2] = ContLine(<<"SP", "TAB">>, <<"y">>)
    /\ lines[3] = ContLine(<<"SP">>, <<".">>)
    /\ pghs.paragraphs[1][lines[1].name].value
         = lines[1].body \o <<"LF", "SP", "TAB", "y", "LF", "SP", ".">>

-----------------------------------------------------------------------------
\* the first field line that repeats a name of its block
FirstDuplicate(ls) == CHOOSE i \in DuplicateLines(ls) : \A j \in DuplicateLines(ls) : i <= j

FieldCountOfBlock(ls, b) == Cardinality({ k \in FieldLinesOf(ls) : BlockOf(ls, k) = b })

(* C10: when a field name occurs a second time in one paragraph the parse  *)
(* fails with "duplicate field" at the start of the second occurrence's    *)
(* name (its row, column 1); a parse that succeeds therefore holds one     *)
(* field per field line of each block, none lost to an overwrite.          *)
C10_DuplicateField ==
    (Parsed /\ Shaped(lines)) =>
        /\ DuplicateLines(lines) # {} =>
               /\ ~pghs.ok
               /\ pghs.error = [msg |-> "duplicate field",
                                row |-> FirstDuplicate(lines), col |-> 1]
        /\ DuplicateLines(lines) = {} =>
               /\ pghs.ok
               /\ \A b \in FieldBlocks(lines) :
                      LET k == ParagraphOfRun(lines, b)
                      IN  /\ k <= Len(pghs.paragraphs)
                          /\ Cardinality(DOMAIN pghs.paragraphs[k])
                               = FieldCountOfBlock(lines, b)

\* "A:x", a comment, then "A: y": rejected at row 3
C10_Witness ==
    /\ Parsed /\ Shaped(lines)
    /\ Len(lines) = 3
    /\ lines[1].kind = "field" /\ lines[2].kind = "comment" /\ lines[3].kind = "field"
    /\ lines[1].name = lines[3].name
    /\ ~pghs.ok /\ pghs.error.msg = "duplicate field" /\ pghs.error.row = 3

-----------------------------------------------------------------------------
(* ParagraphParser: required_field, optional_field, error_info.            *)

FieldNames == { <<"A">>, <<"B">>, <<"a">> }

FieldValues == { [value |-> <<"x">>, rowcol |-> [row |-> 1, col |-> 1]],
                 [value |-> <<"y">>, rowcol |-> [row |-> 2, col |-> 4]] }

\* the default-constructed (string, TextRowCol) the overloads return
EmptyValue == [value |-> << >>, rowcol |-> [row |-> 0, col |-> 0]]

Paragraphs == UNION { [D -> FieldValues] : D \in SUBSET FieldNames }

NoErrorInfo == [none |-> TRUE]

\* fields->find, then move the value out and erase the entry
remove_field(flds, fieldname) ==
    IF fieldname \notin DOMAIN flds THEN [found |-> FALSE, fields |-> flds]
    ELSE [found |-> TRUE, value |-> flds[fieldname],
          fields |-> [n \in DOMAIN flds \ {fieldname} |-> flds[n]]]

\* Util::extract_keys(fields): the keys, in the map's unspecified order
extract_keys(flds) == DOMAIN flds

\* an error_info that looks at the fields left only
error_info_extra_only(flds, missing) ==
    IF flds # EmptyParagraph
    THEN [extra_fields |-> extract_keys(flds), missing_fields |-> missing]
    ELSE NoErrorInfo

\* ParagraphParser::error_info
error_info(flds, missing) ==
    IF flds # EmptyParagraph \/ missing # << >>
    THEN [extra_fields |-> extract_keys(flds), missing_fields |-> missing]
    ELSE NoErrorInfo

PpIdle ==
    /\ paragraph = EmptyParagraph /\ calls = << >> /\ fields = EmptyParagraph
    /\ missing_fields = << >> /\ out = EmptyValue /\ errInfo = NoErrorInfo
    /\ ppPc = "off"

\* ParagraphParser(Paragraph&& p): fields is the paragraph
PpInit ==
    /\ paragraph \in Paragraphs
    /\ calls = << >>
    /\ fields = paragraph
    /\ missing_fields = << >>
    /\ out = EmptyValue
    /\ errInfo = NoErrorInfo
    /\ ppPc = "extracting"

\* std::string required_field(const std::string& fieldname)
RequiredField(fieldname) ==
    /\ ppPc = "extracting"
    /\ Len(calls) < MaxCalls
    /\ LET r == remove_field(fields, fieldname)
       IN  /\ fields' = r.fields
           /\ out' = IF r.found THEN r.value ELSE EmptyValue
           /\ missing_fields' = IF r.found THEN missing_fields
                                ELSE Append(missing_fields, fieldname)
    /\ calls' = Append(calls, [op |-> "required", name |-> fieldname])
    /\ UNCHANGED <<paragraph, errInfo, ppPc>>

\* std::string optional_field(const std::string& fieldname)
OptionalField(fieldname) ==
    /\ ppPc = "extracting"
    /\ Len(calls) < MaxCalls
    /\ LET r == remove_field(fields, fieldname)
       IN  /\ fields' = r.fields
           /\ out' = IF r.found THEN r.value ELSE EmptyValue
    /\ calls' = Append(calls, [op |-> "optional", name |-> fieldname])
    /\ UNCHANGED <<paragraph, missing_fields, errInfo, ppPc>>

\* error_info(name) const
ErrorInfo ==
    /\ ppPc = "extracting"
    /\ errInfo' = error_info(fields, missing_fields)
    /\ ppPc' = "finalized"
    /\ UNCHANGED <<paragraph, calls, fields, missing_fields, out>>

-----------------------------------------------------------------------------
(* The list grammars: parse_list_until_eof and its three entry points.     *)

is_name_char == {"a", "b"}

\* parse_feature_name: a run of name characters, not empty
parse_feature_name(t, p) ==
    LET e == match_zero_or_more(t, p.pos, is_name_char)
        q == [p EXCEPT !.pos = e]
    IN  IF e = p.pos
        THEN [ok |-> FALSE, p |-> add_error(t, q, <<"expected feature name">>, cur_loc(t, e))]
        ELSE [ok |-> TRUE, p |-> q, item |-> SubSeq(t, p.pos, e - 1)]

\* parse_qualified_specifier: name [ ':' triplet ], then tabs and spaces
\* (feature lists and platform expressions need '[' and '(', which the
\* strings of this model do not hold)
parse_qualified_specifier(t, p) ==
    LET e == match_zero_or_more(t, p.pos, is_name_char)
        q == [p EXCEPT !.pos = e]
        f == match_zero_or_more(t, e + 1, is_name_char)
    IN  IF e = p.pos
        THEN [ok |-> FALSE, p |-> add_error(t, q, <<"expected port name">>, cur_loc(t, e))]
        ELSE IF cur(t, e) # ":"
        THEN [ok |-> TRUE, p |-> [q EXCEPT !.pos = skip_tabs_spaces(t, e)],
              item |-> [name |-> SubSeq(t, p.pos, e - 1), triplet |-> << >>]]
        ELSE IF f = e + 1
        THEN [ok |-> FALSE,
              p |-> add_error(t, [q EXCEPT !.pos = f], <<"expected triplet name">>, cur_loc(t, f))]
        ELSE [ok |-> TRUE, p |-> [q EXCEPT !.pos = skip_tabs_spaces(t, f)],
              item |-> [name |-> SubSeq(t, p.pos, e - 1), triplet |-> SubSeq(t, e + 1, f - 1)]]

\* the item parser of parse_dependencies_list: a qualified specifier
\* without triplet, as a Dependency; loc is parser.cur_loc() before the item
parse_dependency_then(t, loc, r) ==
    IF ~r.ok THEN r
    ELSE IF r.item.triplet # << >>
    THEN [ok |-> FALSE,
          p |-> add_error(t, r.p, <<"triplet specifier not allowed in this context">>, loc)]
    ELSE [ok |-> TRUE, p |-> r.p, item |-> [name |-> r.item.name]]

parse_dependency(t, p) ==
    parse_dependency_then(t, cur_loc(t, p.pos), parse_qualified_specifier(t, p))

\* f(parser), for the three item parsers handed to parse_list_until_eof
parse_item(f, t, p) ==
    CASE f = "parse_feature_name"        -> parse_feature_name(t, p)
      [] f = "parse_qualified_specifier" -> parse_qualified_specifier(t, p)
      [] f = "parse_dependency"          -> parse_dependency(t, p)

ExpectedCommaMsg(plural_item_name) ==
    <<"expected ',' or end of text in ", plural_item_name, " list">>

\* a loop that stops at the end of text after a comma
parse_list_after_comma_lenient(t, p, ret, i) ==
    [done |-> at_eof(t, i), ok |-> TRUE, p |-> [p EXCEPT !.pos = i], ret |-> ret]

\* parser.next(); parser.skip_whitespace(); i is the cursor after them, and
\* the loop goes round again
parse_list_after_comma(t, p, ret, i) ==
    [done |-> FALSE, ok |-> TRUE, p |-> [p EXCEPT !.pos = i], ret |-> ret]

\* after the item is pushed and whitespace is skipped: i is the cursor
parse_list_after_item(plural_item_name, t, p, ret, i) ==
    IF at_eof(t, i)
    THEN [done |-> TRUE, ok |-> TRUE, p |-> [p EXCEPT !.pos = i], ret |-> ret]
    ELSE IF cur(t, i) # ","
    THEN [done |-> TRUE, ok |-> FALSE,
          p |-> add_error(t, [p EXCEPT !.pos = i], ExpectedCommaMsg(plural_item_name),
                          cur_loc(t, i)),
          ret |-> ret]
    ELSE parse_list_after_comma(t, p, ret, skip_whitespace(t, i + 1))

\* after auto item = f(parser)
parse_list_item(plural_item_name, t, ret, item) ==
    IF ~item.ok THEN [done |-> TRUE, ok |-> FALSE, p |-> item.p, ret |-> ret]
    ELSE parse_list_after_item(plural_item_name, t, item.p, Append(ret, item.item),
                               skip_whitespace(t, item.p.pos))

\* one pass of the do-while of parse_list_until_eof; done is TRUE when the
\* pass returned
parse_list_pass(plural_item_name, f, t, p, ret) ==
    parse_list_item(plural_item_name, t, ret, parse_item(f, t, p))

RECURSIVE parse_list_loop(_, _, _, _, _)

parse_list_while(plural_item_name, f, t, s) ==
    IF s.done THEN s ELSE parse_list_loop(plural_item_name, f, t, s.p, s.ret)

parse_list_loop(plural_item_name, f, t, p, ret) ==
    parse_list_while(plural_item_name, f, t, parse_list_pass(plural_item_name, f, t, p, ret))

\* Optional<std::vector<T>> and the parser it leaves behind
parse_list_from(plural_item_name, f, t, p) ==
    IF at_eof(t, p.pos) THEN [ok |-> TRUE, p |-> p, ret |-> << >>]
    ELSE parse_list_loop(plural_item_name, f, t, p, << >>)

parse_list_until_eof(plural_item_name, f, t) ==
    parse_list_from(plural_item_name, f, t, [pos |-> skip_whitespace(t, 1), err |-> NoError])

\* what the three entry points make of it: the list, or the parser's error
list_expected(r) ==
    IF ~r.ok THEN [ok |-> FALSE, error |-> r.p.err]
    ELSE [ok |-> TRUE, items |-> r.ret]

parse_default_features_list(t) ==
    list_expected(parse_list_until_eof("default features", "parse_feature_name", t))

parse_qualified_specifier_list(t) ==
    list_expected(parse_list_until_eof("dependencies", "parse_qualified_specifier", t))

parse_dependencies_list(t) ==
    list_expected(parse_list_until_eof("dependencies", "parse_dependency", t))

ListChars == {"a", "b", ",", "SP", ":"}

ListStrings == UNION { [1..n -> ListChars] : n \in 0..MaxListLen }

ListIdle ==
    /\ str = << >> /\ listCall = "none"
    /\ listResult = [ok |-> TRUE, items |-> << >>] /\ listPc = "off"

ListInit ==
    /\ str \in ListStrings
    /\ listCall = "none"
    /\ listResult = [ok |-> TRUE, items |-> << >>]
    /\ listPc = "ready"

ParseDefaultFeaturesList ==
    /\ listPc = "ready"
    /\ listResult' = parse_default_features_list(str)
    /\ listCall' = "parse_default_features_list"
    /\ listPc' = "done"
    /\ UNCHANGED str

ParseQualifiedSpecifierList ==
    /\ listPc = "ready"
    /\ listResult' = parse_qualified_specifier_list(str)
    /\ listCall' = "parse_qualified_specifier_list"
    /\ listPc' = "done"
    /\ UNCHANGED str

ParseDependenciesList ==
    /\ listPc = "ready"
    /\ listResult' = parse_dependencies_list(str)
    /\ listCall' = "parse_dependencies_list"
    /\ listPc' = "done"
    /\ UNCHANGED str

-----------------------------------------------------------------------------
(* Record construction (SourceControlFile::parse_control_file and          *)
(* parse_manifest_object): the core paragraph must hold the field A and    *)
(* may hold B, read through the ParagraphParser.                           *)

Message(m) == [msg |-> m]

ErrorInfoOf(name, message) ==
    [kind |-> "error", name |-> name, error |-> message,
     extra_fields |-> {}, missing_fields |-> << >>]

parse_control_file(origin, control_paragraphs) ==
    IF control_paragraphs = << >> THEN ErrorInfoOf(origin, Message("no paragraphs"))
    ELSE LET source == remove_field(control_paragraphs[1], <<"A">>)
             missing == IF source.found THEN << >> ELSE << <<"A">> >>
             rest == remove_field(source.fields, <<"B">>)
             err == error_info(rest.fields, missing)
         IN  IF err # NoErrorInfo
             THEN [kind |-> "error", name |-> origin, error |-> Message(""),
                   extra_fields |-> err.extra_fields, missing_fields |-> err.missing_fields]
             ELSE [kind |-> "scf", origin |-> origin, source |-> source.value.value]

-----------------------------------------------------------------------------
(* The filesystem: per port directory, whether it exists and the state of  *)
(* its vcpkg.json and CONTROL files.                                       *)

Ports == 1..MaxPorts

\* vcpkg.json: a valid manifest object, an object the manifest schema
\* rejects, JSON that is no object, text that is no JSON
ManifestTexts == {"object", "bad_object", "not_object", "bad_json"}

\* CONTROL: "A:x", "B:x" (A is missing), "A" (no colon)
ControlTexts == { <<"A", ":", "x">>, <<"B", ":", "x">>, <<"A">> }

AbsentFile == [state |-> "absent", contents |-> << >>]

FileStates(texts) ==
    {AbsentFile, [state |-> "unreadable", contents |-> << >>]}
        \cup { [state |-> "readable", contents |-> c] : c \in texts }

MissingDir == [exists |-> FALSE, manifest |-> AbsentFile, control |-> AbsentFile]

DirStates ==
    {MissingDir} \cup
    { [exists |-> TRUE, manifest |-> m, control |-> c] :
        m \in FileStates(ManifestTexts), c \in FileStates(ControlTexts) }

\* port_directory.filename()
port_name(port_directory) == <<port_directory>>

manifest_path(port_directory) == <<port_directory, "vcpkg.json">>

control_path(port_directory) == <<port_directory, "CONTROL">>

\* fs.read_contents(path, ec)
read_contents(file) ==
    IF file.state = "readable" THEN [ec |-> FALSE, contents |-> file.contents]
    ELSE [ec |-> TRUE, contents |-> << >>]

\* fs.exists(path, IgnoreErrors{})
exists(file) == file.state # "absent"

\* get_paragraphs(fs, control_path)
get_paragraphs_file(file) ==
    LET c == read_contents(file)
    IN  IF c.ec THEN [ok |-> FALSE, error |-> Message("read error")]
        ELSE parse_paragraphs(c.contents)

try_load_manifest_text(manifest_text, origin) ==
    CASE manifest_text = "object"     -> [kind |-> "scf", origin |-> origin, source |-> <<"m">>]
      [] manifest_text = "bad_object" ->
             [kind |-> "error", name |-> origin, error |-> Message(""),
              extra_fields |-> {}, missing_fields |-> << <<"name">> >>]
      [] manifest_text = "not_object" ->
             ErrorInfoOf(origin, Message("Manifest files must have a top-level object"))
      [] OTHER                        -> ErrorInfoOf(origin, Message("json parse error"))

FatalExit == [kind |-> "exit"]

ManifestLoadMsg == "Failed to load manifest file for port"

NeitherFileMsg == "Failed to find either a CONTROL file or vcpkg.json file."

NoDirectoryMsg == "The port directory does not exist"

\* the tail with the two messages of the last branch exchanged
try_load_port_without_manifest_swapped(dir, port_directory) ==
    LET pg == get_paragraphs_file(dir.control)
    IN  IF exists(dir.control)
        THEN IF pg.ok THEN parse_control_file(control_path(port_directory), pg.paragraphs)
             ELSE ErrorInfoOf(port_name(port_directory), pg.error)
        ELSE IF ~dir.exists
        THEN ErrorInfoOf(port_name(port_directory), Message(NeitherFileMsg))
        ELSE ErrorInfoOf(port_name(port_directory), Message(NoDirectoryMsg))

\* the tail of try_load_port, reached when vcpkg.json does not exist
try_load_port_without_manifest(dir, port_directory) ==
    LET pg == get_paragraphs_file(dir.control)
    IN  IF exists(dir.control)
        THEN IF pg.ok THEN parse_control_file(control_path(port_directory), pg.paragraphs)
             ELSE ErrorInfoOf(port_name(port_directory), pg.error)
        ELSE IF dir.exists
        THEN ErrorInfoOf(port_name(port_directory), Message(NeitherFileMsg))
        ELSE ErrorInfoOf(port_name(port_directory), Message(NoDirectoryMsg))

\* try_load_port without the check_exit
try_load_port_no_check(dir, port_directory) ==
    LET manifest_contents == read_contents(dir.manifest)
    IN  IF manifest_contents.ec
        THEN IF exists(dir.manifest)
             THEN ErrorInfoOf(port_name(port_directory), Message(ManifestLoadMsg))
             ELSE try_load_port_without_manifest(dir, port_directory)
        ELSE try_load_manifest_text(manifest_contents.contents, manifest_path(port_directory))

\* try_load_port going on to CONTROL when vcpkg.json cannot be read
try_load_port_fall_through(dir, port_directory) ==
    LET manifest_contents == read_contents(dir.manifest)
    IN  IF manifest_contents.ec
        THEN try_load_port_without_manifest(dir, port_directory)
        ELSE IF exists(dir.control) THEN FatalExit
        ELSE try_load_manifest_text(manifest_contents.contents, manifest_path(port_directory))

\* try_load_port(fs, port_directory), dir being the directory's state
try_load_port(dir, port_directory) ==
    LET manifest_contents == read_contents(dir.manifest)
    IN  IF manifest_contents.ec
        THEN IF exists(dir.manifest)
             THEN ErrorInfoOf(port_name(port_directory), Message(ManifestLoadMsg))
             ELSE try_load_port_without_manifest(dir, port_directory)
        ELSE IF exists(dir.control) THEN FatalExit
        ELSE try_load_manifest_text(manifest_contents.contents, manifest_path(port_directory))

-----------------------------------------------------------------------------
(* The batch loaders.                                                      *)

\* ".DS_Store" sorts before every port name
DSStore == 0

RECURSIVE Concat(_)
Concat(seqs) == IF seqs = << >> THEN << >> ELSE Head(seqs) \o Concat(Tail(seqs))

\* s in ascending order, duplicates kept
RECURSIVE sort(_)
sort(s) ==
    IF s = << >> THEN << >>
    ELSE LET m == CHOOSE i \in 1..Len(s) : \A j \in 1..Len(s) : s[i] <= s[j]
         IN  <<s[m]>> \o sort(SubSeq(s, 1, m - 1) \o SubSeq(s, m + 1, Len(s)))

\* the elements of S in ascending order
RECURSIVE sort_names(_)
sort_names(S) ==
    IF S = {} THEN << >>
    ELSE LET m == CHOOSE x \in S : \A y \in S : x <= y
         IN  <<m>> \o sort_names(S \ {m})

\* the orders a directory listing of S can come in
Listings(S) ==
    { q \in [1..Cardinality(S) -> S] : \A i, j \in 1..Cardinality(S) : q[i] = q[j] => i = j }

\* s in ascending order, each element once
sort_unique_erase(s) ==
    LET t == sort(s)
    IN  SelectSeq([i \in 1..Len(t) |-> [v |-> t[i], first |-> i = 1 \/ t[i - 1] # t[i]]],
                  LAMBDA e : e.first)

\* the ports vector of try_load_all_registry_ports before it is sorted:
\* registry.packages() of each registry, then the default registry's names
all_port_names(rs) ==
    Concat([i \in 1..Len(rs.registries) |-> rs.registries[i].packages])
        \o (IF rs.default_registry.present THEN rs.default_registry.names ELSE << >>)

\* the loop over `ports`: the LoadResults, or exited
RECURSIVE load_ports_loop(_, _, _, _)
load_ports_loop(f, rs, ports, acc) ==
    IF ports = << >> THEN acc
    ELSE LET port == Head(ports)
             maybe_spgh == try_load_port(f[port], port)
         IN  IF ~rs.registry_for_port[port] \/ ~rs.baseline[port]
             THEN load_ports_loop(f, rs, Tail(ports), acc)
             ELSE IF maybe_spgh = FatalExit THEN [acc EXCEPT !.exited = TRUE]
             ELSE IF maybe_spgh.kind = "scf"
             THEN load_ports_loop(f, rs, Tail(ports),
                      [acc EXCEPT !.paragraphs = Append(@, [scf |-> maybe_spgh, path |-> port])])
             ELSE load_ports_loop(f, rs, Tail(ports),
                      [acc EXCEPT !.errors = Append(@, maybe_spgh)])

EmptyLoadResults == [exited |-> FALSE, paragraphs |-> << >>, errors |-> << >>]

\* the loader with `ports` sorted but its duplicates kept
try_load_all_registry_ports_no_unique(f, rs) ==
    load_ports_loop(f, rs, sort([i \in 1..Len(all_port_names(rs)) |-> all_port_names(rs)[i]]),
                    EmptyLoadResults)

\* try_load_all_registry_ports: the LoadResults, or exited
try_load_all_registry_ports(f, rs) ==
    load_ports_loop(f, rs,
                    [i \in 1..Len(sort_unique_erase(all_port_names(rs))) |->
                        sort_unique_erase(all_port_names(rs))[i].v],
                    EmptyLoadResults)

\* load_results_print_error: nothing without errors; every error in full
\* when debugging; otherwise one warning per error and the --debug hint
load_results_print_error(errors, debugging) ==
    IF errors = << >> THEN << >>
    ELSE IF debugging THEN [i \in 1..Len(errors) |-> [full |-> errors[i]]]
    ELSE [i \in 1..Len(errors) |-> [warning |-> errors[i].name]] \o << [hint |-> "--debug"] >>

\* the loop of load_overlay_ports over the sorted, filtered port_dirs
RECURSIVE load_dirs_loop(_, _, _)
load_dirs_loop(f, port_dirs, acc) ==
    IF port_dirs = << >> THEN acc
    ELSE LET path == Head(port_dirs)
             maybe_spgh == try_load_port(f[path], path)
         IN  IF maybe_spgh = FatalExit THEN [acc EXCEPT !.exited = TRUE]
             ELSE IF maybe_spgh.kind = "scf"
             THEN load_dirs_loop(f, Tail(port_dirs),
                      [acc EXCEPT !.paragraphs = Append(@, [scf |-> maybe_spgh, path |-> path])])
             ELSE load_dirs_loop(f, Tail(port_dirs),
                      [acc EXCEPT !.errors = Append(@, maybe_spgh)])

\* the loop run over the listing as it came
load_overlay_results_unsorted(f, listing) ==
    load_dirs_loop(f, SelectSeq(listing, LAMBDA d : d # DSStore), EmptyLoadResults)

\* load_overlay_ports, listing being what get_directories_non_recursive
\* returned: the LoadResults it built (it returns ret.paragraphs alone)
load_overlay_results(f, listing) ==
    load_dirs_loop(f, SelectSeq(sort(listing), LAMBDA d : d # DSStore), EmptyLoadResults)

-----------------------------------------------------------------------------
(* Loader states and actions.                                              *)

NoCall == [fn |-> "none", arg |-> 0]

NoResult == [kind |-> "none"]

LoadIdle ==
    /\ fs = [d \in 0..MaxPorts |-> MissingDir]
    /\ registries = << >> /\ overlay = {} /\ g_debugging = FALSE
    /\ loadCall = NoCall /\ loadResult = NoResult /\ printed = << >> /\ loadPc = "off"

NoRegistries ==
    [registries |-> << >>, default_registry |-> [present |-> FALSE, names |-> << >>],
     registry_for_port |-> [n \in Ports |-> FALSE], baseline |-> [n \in Ports |-> FALSE]]

LoadStart ==
    /\ loadCall = NoCall /\ loadResult = NoResult /\ printed = << >> /\ loadPc = "ready"

\* one port directory in any state
PortInit ==
    /\ fs \in [0..MaxPorts -> DirStates]
    /\ fs[DSStore] = MissingDir
    /\ registries = NoRegistries /\ overlay = {} /\ g_debugging = FALSE
    /\ LoadStart

\* directory states the batch loaders are run over: no directory, a valid
\* manifest, a CONTROL file without the required field, both files
RegistryDirStates ==
    { MissingDir,
      [exists |-> TRUE, manifest |-> [state |-> "readable", contents |-> "object"],
       control |-> AbsentFile],
      [exists |-> TRUE, manifest |-> AbsentFile,
       control |-> [state |-> "readable", contents |-> <<"B", ":", "x">>]],
      [exists |-> TRUE, manifest |-> [state |-> "readable", contents |-> "object"],
       control |-> [state |-> "readable", contents |-> <<"A", ":", "x">>]] }

\* ascending sequences over the port names
SortedSeqs == { sort_names(S) : S \in SUBSET Ports }

\* one listed registry and maybe a default registry; every name is owned
\* or not, and its owner has a baseline path for it or not
RegistrySets ==
    { [registries |-> << [packages |-> p] >>,
       default_registry |-> d,
       registry_for_port |-> o,
       baseline |-> b] :
        p \in SortedSeqs,
        d \in {[present |-> FALSE, names |-> << >>]}
                \cup { [present |-> TRUE, names |-> n] : n \in SortedSeqs },
        o \in [Ports -> BOOLEAN],
        b \in [Ports -> BOOLEAN] }

RegistriesInit ==
    /\ fs \in [0..MaxPorts -> RegistryDirStates]
    /\ fs[DSStore] = MissingDir
    /\ registries \in RegistrySets
    /\ \A n \in Ports : registries.baseline[n] => registries.registry_for_port[n]
    /\ overlay = {} /\ g_debugging = FALSE
    /\ LoadStart

\* the overlay directory holds the port directories that exist and maybe
\* a .DS_Store entry
OverlayDirStates ==
    RegistryDirStates \cup
    { [exists |-> TRUE, manifest |-> AbsentFile, control |-> AbsentFile],
      [exists |-> TRUE, manifest |-> [state |-> "readable", contents |-> "bad_object"],
       control |-> AbsentFile],
      [exists |-> TRUE, manifest |-> AbsentFile,
       control |-> [state |-> "readable", contents |-> <<"A", ":", "x">>]],
      [exists |-> TRUE, manifest |-> AbsentFile,
       control |-> [state |-> "readable", contents |-> <<"A">>]],
      [exists |-> TRUE, manifest |-> [state |-> "unreadable", contents |-> << >>],
       control |-> [state |-> "readable", contents |-> <<"A", ":", "x">>]] }

DSStoreStates ==
    { MissingDir,
      [exists |-> TRUE, manifest |-> AbsentFile,
       control |-> [state |-> "readable", contents |-> <<"B", ":", "x">>]] }

OverlayInit ==
    /\ fs \in [0..MaxPorts -> OverlayDirStates]
    /\ fs[DSStore] \in DSStoreStates
    /\ registries = NoRegistries
    /\ overlay = { d \in 0..MaxPorts : fs[d].exists }
    /\ g_debugging \in BOOLEAN
    /\ LoadStart

\* try_load_port(fs, port_directory)
TryLoadPort(port_directory) ==
    /\ loadPc = "ready"
    /\ loadCall' = [fn |-> "try_load_port", arg |-> port_directory]
    /\ LET r == try_load_port(fs[port_directory], port_directory)
       IN  IF r = FatalExit
           THEN loadPc' = "exited" /\ UNCHANGED loadResult
           ELSE loadPc' = "returned" /\ loadResult' = r
    /\ UNCHANGED <<fs, registries, overlay, g_debugging, printed>>

\* try_load_all_registry_ports(fs, registries)
TryLoadAllRegistryPorts ==
    /\ loadPc = "ready"
    /\ loadCall' = [fn |-> "try_load_all_registry_ports", arg |-> 0]
    /\ LET r == try_load_all_registry_ports(fs, registries)
       IN  IF r.exited
           THEN loadPc' = "exited" /\ UNCHANGED loadResult
           ELSE /\ loadPc' = "returned"
                /\ loadResult' = [paragraphs |-> r.paragraphs, errors |-> r.errors]
    /\ UNCHANGED <<fs, registries, overlay, g_debugging, printed>>

\* load_overlay_ports(fs, directory): the directory listing comes in any
\* order; the errors are printed, ret.paragraphs is returned
LoadOverlayPorts ==
    /\ loadPc = "ready"
    /\ loadCall' = [fn |-> "load_overlay_ports", arg |-> 0]
    /\ \E listing \in Listings(overlay) :
           LET r == load_overlay_results(fs, listing)
           IN  IF r.exited
               THEN loadPc' = "exited" /\ UNCHANGED <<loadResult, printed>>
               ELSE /\ loadPc' = "returned"
                    /\ printed' = load_results_print_error(r.errors, g_debugging)
                    /\ loadResult' = [paragraphs |-> r.paragraphs]
    /\ UNCHANGED <<fs, registries, overlay, g_debugging>>

-----------------------------------------------------------------------------
(* try_load_cached_package: the CONTROL file of an installed package.      *)

\* the specs a caller expects, and the ones a package names
PackageSpecs == { <<"x">>, <<"y">> }

\* BinaryParagraph(Paragraph): its spec is what the field A holds
BinaryParagraph(flds) ==
    [spec |-> IF contains(flds, <<"A">>) THEN flds[<<"A">>].value ELSE << >>]

\* bcf.core_paragraph = BinaryParagraph(p->front()); p->erase(p->begin());
\* bcf.features = Util::fmap(*p, ...)
make_bcf(front, rest) ==
    [core_paragraph |-> BinaryParagraph(front),
     features |-> [i \in DOMAIN rest |-> BinaryParagraph(rest[i])]]

MismatchedSpecMsg == "Mismatched spec in package at"

\* if (bcf.core_paragraph.spec != spec) return the message; return bcf
check_spec(bcf, expected) ==
    IF bcf.core_paragraph.spec # expected
    THEN [kind |-> "error",
          error |-> [msg |-> MismatchedSpecMsg, expected |-> expected,
                     actual |-> bcf.core_paragraph.spec]]
    ELSE [kind |-> "bcf", bcf |-> bcf]

NoCached == [kind |-> "none"]

\* what p->front() of an empty vector may be read as
GarbageParagraphs ==
    { EmptyParagraph } \cup
    { [n \in {<<"A">>} |-> [value |-> v, rowcol |-> [row |-> 0, col |-> 0]]] :
        v \in PackageSpecs }

\* front() and erase(begin()) of an empty vector are undefined: the process
\* dies, or goes on with whatever front() read
front_of_empty(expected) ==
    { [pc |-> "crashed", result |-> NoCached, front |-> 0] } \cup
    { [pc |-> "returned", result |-> check_spec(make_bcf(g, << >>), expected), front |-> 0] :
        g \in GarbageParagraphs }

\* the outcomes of try_load_cached_package once get_paragraphs returned pg
try_load_cached_package_on(pg, expected) ==
    IF ~pg.ok
    THEN { [pc |-> "returned", result |-> [kind |-> "error", error |-> pg.error],
            front |-> -1] }
    ELSE IF pg.paragraphs = << >> THEN front_of_empty(expected)
    ELSE { [pc |-> "returned",
            result |-> check_spec(make_bcf(Head(pg.paragraphs), Tail(pg.paragraphs)),
                                  expected),
            front |-> Len(pg.paragraphs)] }

\* try_load_cached_package(fs, package_dir, spec), file being the state of
\* package_dir / "CONTROL"
try_load_cached_package(file, expected) ==
    try_load_cached_package_on(get_paragraphs_file(file), expected)

\* the CONTROL files of a package directory: absent, unreadable, or any
\* document
PackageControlFiles ==
    { AbsentFile, [state |-> "unreadable", contents |-> << >>] } \cup
    { [state |-> "readable", contents |-> RenderLines(d, nl, last)] :
        d \in Documents, nl \in LineEndings, last \in BOOLEAN }

CachedIdle ==
    /\ package_control = AbsentFile /\ spec = << >> /\ cachedResult = NoCached
    /\ front_size = -1 /\ cachedPc = "off"

CachedInit ==
    /\ package_control \in PackageControlFiles
    /\ spec \in PackageSpecs
    /\ cachedResult = NoCached
    /\ front_size = -1
    /\ cachedPc = "ready"

\* try_load_cached_package(fs, package_dir, spec)
TryLoadCachedPackage ==
    /\ cachedPc = "ready"
    /\ \E o \in try_load_cached_package(package_control, spec) :
           /\ cachedPc' = o.pc
           /\ cachedResult' = o.result
           /\ front_size' = o.front
    /\ UNCHANGED <<package_control, spec>>

-----------------------------------------------------------------------------
(* Specifications *)

PghNext == ParseParagraphs /\ UNCHANGED <<ppVars, listVars, loadVars, cachedVars>>

InitPgh == PghInit /\ PpIdle /\ ListIdle /\ LoadIdle /\ CachedIdle

SpecPgh == InitPgh /\ [][PghNext]_vars

PpNext ==
    \/ \E n \in FieldNames : RequiredField(n) /\ UNCHANGED <<pghVars, listVars, loadVars, cachedVars>>
    \/ \E n \in FieldNames : OptionalField(n) /\ UNCHANGED <<pghVars, listVars, loadVars, cachedVars>>
    \/ ErrorInfo /\ UNCHANGED <<pghVars, listVars, loadVars, cachedVars>>

InitFields == PpInit /\ PghIdle /\ ListIdle /\ LoadIdle /\ CachedIdle

SpecFields == InitFields /\ [][PpNext]_vars

ListNext ==
    \/ ParseDefaultFeaturesList /\ UNCHANGED <<pghVars, ppVars, loadVars, cachedVars>>
    \/ ParseQualifiedSpecifierList /\ UNCHANGED <<pghVars, ppVars, loadVars, cachedVars>>
    \/ ParseDependenciesList /\ UNCHANGED <<pghVars, ppVars, loadVars, cachedVars>>

InitList == ListInit /\ PghIdle /\ PpIdle /\ LoadIdle /\ CachedIdle

SpecList == InitList /\ [][ListNext]_vars

PortNext == \E d \in Ports : TryLoadPort(d) /\ UNCHANGED <<pghVars, ppVars, listVars, cachedVars>>

InitPort == PortInit /\ PghIdle /\ PpIdle /\ ListIdle /\ CachedIdle

SpecPort == InitPort /\ [][PortNext]_vars

RegistriesNext == TryLoadAllRegistryPorts /\ UNCHANGED <<pghVars, ppVars, listVars, cachedVars>>

InitRegistries == RegistriesInit /\ PghIdle /\ PpIdle /\ ListIdle /\ CachedIdle

SpecRegistries == InitRegistries /\ [][RegistriesNext]_vars

OverlayNext == LoadOverlayPorts /\ UNCHANGED <<pghVars, ppVars, listVars, cachedVars>>

InitOverlay == OverlayInit /\ PghIdle /\ PpIdle /\ ListIdle /\ CachedIdle

SpecOverlay == InitOverlay /\ [][OverlayNext]_vars

CachedNext == TryLoadCachedPackage /\ UNCHANGED <<pghVars, ppVars, listVars, loadVars>>

InitCached == CachedInit /\ PghIdle /\ PpIdle /\ ListIdle /\ LoadIdle

SpecCached == InitCached /\ [][CachedNext]_vars

-----------------------------------------------------------------------------
(* The extraction protocol, read off the call history.                     *)

NamesCalled(cs, k) == { cs[j].name : j \in 1..k }

\* the field was absent when call k was made
AbsentAt(pgh, cs, k) == cs[k].name \notin DOMAIN pgh \/ cs[k].name \in NamesCalled(cs, k - 1)

RECURSIVE MissingAfter(_, _, _)
MissingAfter(pgh, cs, k) ==
    IF k = 0 THEN << >>
    ELSE IF cs[k].op = "required" /\ AbsentAt(pgh, cs, k)
         THEN Append(MissingAfter(pgh, cs, k - 1), cs[k].name)
         ELSE MissingAfter(pgh, cs, k - 1)

LeftAfter(pgh, cs) == DOMAIN pgh \ NamesCalled(cs, Len(cs))

(* C9: after any sequence of required_field / optional_field calls on a    *)
(* ParagraphParser built from a paragraph, the fields left are exactly     *)
(* those of the paragraph no call named, each with its value; every        *)
(* required_field call that found its field absent has put the name on     *)
(* missing_fields, in call order, once per call, and no other call has;    *)
(* a call hands out the field's value when it removed one; and error_info  *)
(* returns no error iff no field is left and missing_fields is empty,      *)
(* otherwise the left names as extra fields and missing_fields as is.      *)
C9_ExtractionProtocol ==
    ppPc \in {"extracting", "finalized"} =>
        /\ DOMAIN fields = LeftAfter(paragraph, calls)
        /\ \A n \in DOMAIN fields : fields[n] = paragraph[n]
        /\ missing_fields = MissingAfter(paragraph, calls, Len(calls))
        /\ calls # << >> =>
               out = IF AbsentAt(paragraph, calls, Len(calls)) THEN EmptyValue
                     ELSE paragraph[calls[Len(calls)].name]
        /\ ppPc = "finalized" =>
               /\ errInfo = NoErrorInfo <=>
                      (LeftAfter(paragraph, calls) = {}
                         /\ MissingAfter(paragraph, calls, Len(calls)) = << >>)
               /\ errInfo # NoErrorInfo =>
                      /\ errInfo.extra_fields = LeftAfter(paragraph, calls)
                      /\ errInfo.missing_fields = MissingAfter(paragraph, calls, Len(calls))

\* A and a extracted, B never asked for, a required twice while absent:
\* error_info reports B as extra and a, a as missing
C9_Witness ==
    /\ ppPc = "finalized"
    /\ DOMAIN paragraph = { <<"A">>, <<"B">> }
    /\ calls = << [op |-> "required", name |-> <<"A">>],
                  [op |-> "required", name |-> <<"a">>],
                  [op |-> "required", name |-> <<"a">>] >>
    /\ errInfo # NoErrorInfo
    /\ errInfo.extra_fields = { <<"B">> }
    /\ errInfo.missing_fields = << <<"a">>, <<"a">> >>

-----------------------------------------------------------------------------
(* List strings, read off their characters.                                *)

\* ends with a comma with nothing but optional whitespace after it
TrailingCommaAt(t) ==
    { i \in 1..Len(t) : t[i] = "," /\ \A k \in (i + 1)..Len(t) : t[k] \in is_whitespace }

AllWhitespace(t) == \A k \in 1..Len(t) : t[k] \in is_whitespace

Trim(t) ==
    LET I == { i \in 1..Len(t) : t[i] \notin is_whitespace }
    IN  IF I = {} THEN << >>
        ELSE SubSeq(t, CHOOSE i \in I : \A j \in I : i <= j,
                       CHOOSE i \in I : \A j \in I : j <= i)

IsName(t) == t # << >> /\ \A k \in 1..Len(t) : t[k] \in is_name_char

\* one item of the list the entry point parses
IsItemOf(call, t) ==
    IF call = "parse_qualified_specifier_list"
    THEN \/ IsName(t)
         \/ \E c \in 1..Len(t) :
                t[c] = ":" /\ IsName(SubSeq(t, 1, c - 1)) /\ IsName(SubSeq(t, c + 1, Len(t)))
    ELSE IsName(t)

\* t is items separated by commas, blanks around them
IsListOf(call, t) ==
    LET C == { i \in 1..Len(t) : t[i] = "," } \cup {0, Len(t) + 1}
    IN  \A a \in C : \A b \in C :
            (a < b /\ ~\E c \in C : a < c /\ c < b)
                => IsItemOf(call, Trim(SubSeq(t, a + 1, b - 1)))

ItemErrorAtEnd(call) ==
    IF call = "parse_default_features_list" THEN <<"expected feature name">>
    ELSE <<"expected port name">>

PluralOf(call) ==
    IF call = "parse_default_features_list" THEN "default features" ELSE "dependencies"

ListParsed == listPc = "done"

-----------------------------------------------------------------------------
-----------------------------------------------------------------------------
(* The port directory try_load_port was called on, read off the            *)
(* filesystem.                                                             *)

PortLoaded == loadCall.fn = "try_load_port" /\ loadPc # "ready"

OnDisk(file) == file.state # "absent"

Readable(file) == file.state = "readable"

\* what the CONTROL texts of the model say: the record of "A:x", the missing
\* field of "B:x", the grammar error of "A", the read error
ControlOutcome(d, file) ==
    CASE ~Readable(file) ->
             [kind |-> "error", name |-> <<d>>, error |-> [msg |-> "read error"],
              extra_fields |-> {}, missing_fields |-> << >>]
      [] file.contents = <<"A", ":", "x">> ->
             [kind |-> "scf", origin |-> <<d, "CONTROL">>, source |-> <<"x">>]
      [] file.contents = <<"B", ":", "x">> ->
             [kind |-> "error", name |-> <<d, "CONTROL">>, error |-> [msg |-> ""],
              extra_fields |-> {}, missing_fields |-> << <<"A">> >>]
      [] file.contents = <<"A">> ->
             [kind |-> "error", name |-> <<d>>,
              error |-> [msg |-> "expected ':' after field name", row |-> 1, col |-> 2],
              extra_fields |-> {}, missing_fields |-> << >>]

ManifestLoadError(d) ==
    [kind |-> "error", name |-> <<d>>, error |-> [msg |-> ManifestLoadMsg],
     extra_fields |-> {}, missing_fields |-> << >>]

-----------------------------------------------------------------------------
(* C2 as stated: whenever the directory holds both vcpkg.json and CONTROL, *)
(* in every state of the two files in which both exist (a manifest that    *)
(* cannot be read included), try_load_port exits and returns nothing.      *)
C2_BothFilesExit ==
    PortLoaded =>
        LET dir == fs[loadCall.arg]
        IN  (OnDisk(dir.manifest) /\ OnDisk(dir.control)) =>
                loadPc = "exited" /\ loadResult = NoResult

(* C2 amended: try_load_port exits, returning nothing, exactly when        *)
(* vcpkg.json is readable and CONTROL exists; when vcpkg.json exists but   *)
(* cannot be read and CONTROL exists it returns the per-package error      *)
(* "Failed to load manifest file for port" under the port's name.          *)
C2_ReadableManifestAndControlExit ==
    PortLoaded =>
        LET dir == fs[loadCall.arg]
        IN  /\ loadPc = "exited" <=> (Readable(dir.manifest) /\ OnDisk(dir.control))
            /\ loadPc = "exited" => loadResult = NoResult
            /\ (OnDisk(dir.manifest) /\ ~Readable(dir.manifest) /\ OnDisk(dir.control)) =>
                   loadPc = "returned" /\ loadResult = ManifestLoadError(loadCall.arg)

\* a readable vcpkg.json next to a CONTROL file: the run is over
C2_Witness ==
    /\ PortLoaded
    /\ Readable(fs[loadCall.arg].manifest) /\ OnDisk(fs[loadCall.arg].control)
    /\ loadPc = "exited"

-----------------------------------------------------------------------------
(* C3: for every state of the directory and its two files other than both  *)
(* files present, try_load_port returns a record or a ParseErrorInfo and   *)
(* does not exit; with neither file present the error says the directory   *)
(* does not exist exactly when it is missing and that neither a CONTROL    *)
(* nor a vcpkg.json file was found exactly when it exists.                 *)
C3_LoaderTotal ==
    PortLoaded =>
        LET dir == fs[loadCall.arg]
        IN  /\ ~(OnDisk(dir.manifest) /\ OnDisk(dir.control)) =>
                   loadPc = "returned" /\ loadResult.kind \in {"scf", "error"}
            /\ (~OnDisk(dir.manifest) /\ ~OnDisk(dir.control)) =>
                   /\ loadResult.kind = "error"
                   /\ loadResult.name = <<loadCall.arg>>
                   /\ loadResult.error.msg = NoDirectoryMsg <=> ~dir.exists
                   /\ loadResult.error.msg = NeitherFileMsg <=> dir.exists

\* a directory that is not there: the error says so
C3_Witness ==
    /\ PortLoaded
    /\ ~fs[loadCall.arg].exists
    /\ loadPc = "returned"
    /\ loadResult.kind = "error" /\ loadResult.error.msg = NoDirectoryMsg

-----------------------------------------------------------------------------
(* C5 as stated: whenever vcpkg.json is not readable and CONTROL exists,   *)
(* the outcome of try_load_port is the record or error made from the       *)
(* CONTROL file, also when vcpkg.json exists but reading it fails.         *)
C5_ControlParsedWhenManifestUnreadable ==
    PortLoaded =>
        LET dir == fs[loadCall.arg]
        IN  (~Readable(dir.manifest) /\ OnDisk(dir.control)) =>
                loadPc = "returned" /\ loadResult = ControlOutcome(loadCall.arg, dir.control)

(* C5 amended: the outcome is the record or error made from the CONTROL    *)
(* file whenever vcpkg.json does not exist and CONTROL exists; when        *)
(* vcpkg.json exists but reading it fails the outcome is the error         *)
(* "Failed to load manifest file for port" and CONTROL is not parsed.      *)
C5_ControlParsedWhenManifestAbsent ==
    PortLoaded =>
        LET dir == fs[loadCall.arg]
        IN  /\ (~OnDisk(dir.manifest) /\ OnDisk(dir.control)) =>
                   loadPc = "returned"
                       /\ loadResult = ControlOutcome(loadCall.arg, dir.control)
            /\ (OnDisk(dir.manifest) /\ ~Readable(dir.manifest)) =>
                   loadPc = "returned" /\ loadResult = ManifestLoadError(loadCall.arg)

\* an unreadable vcpkg.json next to the CONTROL file "A:x": the manifest
\* error, not the record of the CONTROL file
C5_Witness ==
    /\ PortLoaded
    /\ fs[loadCall.arg].manifest.state = "unreadable"
    /\ fs[loadCall.arg].control = [state |-> "readable", contents |-> <<"A", ":", "x">>]
    /\ loadPc = "returned"
    /\ loadResult = ManifestLoadError(loadCall.arg)

-----------------------------------------------------------------------------
(* The batches, read off the registry set, the overlay directory and the   *)
(* filesystem.                                                             *)

Range(q) == { q[i] : i \in DOMAIN q }

\* the names the registries declare and the default registry enumerates
CandidateNames(rs) ==
    UNION { Range(rs.registries[i].packages) : i \in DOMAIN rs.registries }
        \cup (IF rs.default_registry.present THEN Range(rs.default_registry.names) ELSE {})

\* the candidates with an owning registry and a baseline path
AttemptedNames(rs) ==
    { n \in CandidateNames(rs) : rs.registry_for_port[n] /\ rs.baseline[n] }

HoldsBoth(dir) == OnDisk(dir.manifest) /\ OnDisk(dir.control)

\* the directory an entry of LoadResults is about
PortOfSuccess(e) == e.path

PortOfError(e) == e.name[1]

EntriesOf(r, n) ==
    Cardinality({ i \in DOMAIN r.paragraphs : PortOfSuccess(r.paragraphs[i]) = n })
        + Cardinality({ i \in DOMAIN r.errors : PortOfError(r.errors[i]) = n })

\* a directory try_load_port makes a record of
LoadsRecord(dir) ==
    \/ dir.manifest = [state |-> "readable", contents |-> "object"] /\ ~OnDisk(dir.control)
    \/ ~OnDisk(dir.manifest)
         /\ dir.control = [state |-> "readable", contents |-> <<"A", ":", "x">>]

\* a directory whose load ends the run
Conflicts(dir) == Readable(dir.manifest) /\ OnDisk(dir.control)

\* the subdirectories load_overlay_ports attempts, in ascending order
OverlayAttempted(dirs) == sort_names(dirs \ {DSStore})

RegistriesLoaded == loadCall.fn = "try_load_all_registry_ports" /\ loadPc # "ready"

OverlayLoaded == loadCall.fn = "load_overlay_ports" /\ loadPc # "ready"

-----------------------------------------------------------------------------
(* C1: when no package directory holds both a manifest and a control file, *)
(* try_load_all_registry_ports returns LoadResults in which every          *)
(* candidate name with an owning registry and a baseline path has exactly  *)
(* one entry, in successes or in errors, every other name has none, and    *)
(* |successes| + |errors| is the number of distinct attempted names.       *)
C1_OneEntryPerAttemptedName ==
    (RegistriesLoaded /\ \A d \in Ports : ~HoldsBoth(fs[d])) =>
        /\ loadPc = "returned"
        /\ \A n \in AttemptedNames(registries) : EntriesOf(loadResult, n) = 1
        /\ \A n \in Ports \ AttemptedNames(registries) : EntriesOf(loadResult, n) = 0
        /\ Len(loadResult.paragraphs) + Len(loadResult.errors)
             = Cardinality(AttemptedNames(registries))

\* a name both a registry and the default registry give, loaded once, and
\* a declared name without baseline path, left out
C1_Witness ==
    /\ RegistriesLoaded /\ \A d \in Ports : ~HoldsBoth(fs[d])
    /\ loadPc = "returned"
    /\ \E n \in Ports :
           /\ n \in Range(registries.registries[1].packages)
           /\ registries.default_registry.present
           /\ n \in Range(registries.default_registry.names)
           /\ n \in AttemptedNames(registries)
           /\ EntriesOf(loadResult, n) = 1
    /\ \E m \in CandidateNames(registries) :
           /\ registries.registry_for_port[m] /\ ~registries.baseline[m]
           /\ EntriesOf(loadResult, m) = 0
    /\ Len(loadResult.paragraphs) + Len(loadResult.errors) = 1

-----------------------------------------------------------------------------
-----------------------------------------------------------------------------
(* The cached package, read off its CONTROL file.                          *)

CachedLoaded == cachedPc \notin {"off", "ready"}

\* the CONTROL file was read and its text parsed
ControlParses(file) == Readable(file) /\ parse_paragraphs(file.contents).ok

(* C11: for every CONTROL text that parses successfully, text of zero      *)
(* paragraphs (empty, whitespace only) included, try_load_cached_package   *)
(* returns a BinaryControlFile whose core spec is the expected spec or an  *)
(* error message, and never takes front() of an empty paragraph sequence.  *)
C11_FrontOnlyOfNonEmpty ==
    (CachedLoaded /\ ControlParses(package_control)) =>
        /\ front_size > 0
        /\ cachedPc = "returned"
        /\ \/ cachedResult.kind = "error"
           \/ cachedResult.kind = "bcf" /\ cachedResult.bcf.core_paragraph.spec = spec

====
